---- MODULE Spec2Model ----
(***************************************************************************)
(* MSSQL API gateway: the validators (middleware/validator.js), the        *)
(* whitelist and connection pool (db-connector.js) and the route handlers  *)
(* (routes/query.js).                                                      *)
(*                                                                         *)
(* A JavaScript string is modelled as a sequence of one-character strings, *)
(* so that the regular expressions, toUpperCase, trim, includes and        *)
(* replace of the code are computed character by character.                *)
(***************************************************************************)
EXTENDS Integers, Sequences, FiniteSets, TLC

(***************************************************************************)
(* Characters and the string primitives of JavaScript the code uses.       *)
(***************************************************************************)
\* a string literal as the sequence of its characters
Chars(str) == [i \in 1..Len(str) |-> SubSeq(str, i, i)]

Range(s) == {s[i] : i \in 1..Len(s)}

UpperLetters == Chars("ABCDEFGHIJKLMNOPQRSTUVWXYZ")

LowerLetters == Chars("abcdefghijklmnopqrstuvwxyz")

Digits == Range(Chars("0123456789"))

UpperSet == Range(UpperLetters)

LowerSet == Range(LowerLetters)

IsUpper(c) == c \in UpperSet

IsLower(c) == c \in LowerSet

IsLetter(c) == IsUpper(c) \/ IsLower(c)

\* \s of a JavaScript regular expression, on the characters of the model
IsSpace(c) == c \in {" ", "\t", "\n", "\r"}

\* \w of a JavaScript regular expression: [A-Za-z0-9_]
WordChars == UpperSet \cup LowerSet \cup Digits \cup {"_"}

IsWordChar(c) == c \in WordChars

\* the upper-case and the lower-case letter of each letter
UpperOf ==
    [c \in LowerSet |->
        UpperLetters[CHOOSE i \in 1..Len(LowerLetters) : LowerLetters[i] = c]]

LowerOf ==
    [c \in UpperSet |->
        LowerLetters[CHOOSE i \in 1..Len(UpperLetters) : UpperLetters[i] = c]]

toUpperCaseChar(c) == IF IsLower(c) THEN UpperOf[c] ELSE c

toLowerCaseChar(c) == IF IsUpper(c) THEN LowerOf[c] ELSE c

toUpperCase(s) == [i \in 1..Len(s) |-> toUpperCaseChar(s[i])]

toLowerCase(s) == [i \in 1..Len(s) |-> toLowerCaseChar(s[i])]

\* String.prototype.trim
trim(s) ==
    LET keep == {i \in 1..Len(s) : ~IsSpace(s[i])}
    IN  IF keep = {} THEN <<>>
        ELSE LET lo == CHOOSE i \in keep : \A j \in keep : i <= j
                 hi == CHOOSE i \in keep : \A j \in keep : i >= j
             IN  SubSeq(s, lo, hi)

startsWith(s, p) == Len(s) >= Len(p) /\ SubSeq(s, 1, Len(p)) = p

\* s.slice(i-1).startsWith(p): p occurs in s at position i
OccursAt(s, i, p) ==
    /\ i >= 1
    /\ i + Len(p) - 1 <= Len(s)
    /\ \A k \in 1..Len(p) : s[i + k - 1] = p[k]

\* the same, ignoring letter case (the i flag of a regular expression)
OccursAtCI(s, i, p) ==
    /\ i >= 1
    /\ i + Len(p) - 1 <= Len(s)
    /\ \A k \in 1..Len(p) : toUpperCaseChar(s[i + k - 1]) = toUpperCaseChar(p[k])

\* String.prototype.includes
includes(s, p) == \E i \in 1..(Len(s) + 1) : OccursAt(s, i, p)

\* Array.prototype.includes
arrayIncludes(a, x) == \E i \in 1..Len(a) : a[i] = x

\* \b of a regular expression, between s[i-1] and s[i] (i in 1..Len(s)+1):
\* exactly one of the two sides is a word character; outside the string
\* counts as a non-word character
IsWordAt(s, i) == i >= 1 /\ i <= Len(s) /\ IsWordChar(s[i])

WordBoundary(s, i) == IsWordAt(s, i - 1) # IsWordAt(s, i)

\* first position at or after i that holds no whitespace (Len(s)+1 if none)
SkipSpaces(s, i) ==
    LET stop == {j \in i..(Len(s) + 1) : j = Len(s) + 1 \/ ~IsSpace(s[j])}
    IN  CHOOSE j \in stop : \A k \in stop : j <= k

\* /W1\s+W2\s+...Wn/i matched at position i
RECURSIVE WordsOccurAtCI(_, _, _)
WordsOccurAtCI(s, i, words) ==
    IF words = <<>> THEN TRUE
    ELSE /\ OccursAtCI(s, i, Head(words))
         /\ IF Len(words) = 1 THEN TRUE
            ELSE LET after == i + Len(Head(words))
                     next  == SkipSpaces(s, after)
                 IN  /\ next > after
                     /\ WordsOccurAtCI(s, next, Tail(words))

\* String.prototype.split(',')
RECURSIVE split(_, _)
split(s, sep) ==
    LET at == {i \in 1..Len(s) : s[i] = sep}
    IN  IF at = {} THEN <<s>>
        ELSE LET i == CHOOSE k \in at : \A j \in at : k <= j
             IN  <<SubSeq(s, 1, i - 1)>> \o split(SubSeq(s, i + 1, Len(s)), sep)

(***************************************************************************)
(* middleware/validator.js.  A validation result is {valid, error}.        *)
(***************************************************************************)
Valid == [valid |-> TRUE, error |-> <<>>]

Invalid(message) == [valid |-> FALSE, error |-> message]

kwSELECT == Chars("SELECT")

dangerousKeywords ==
    << Chars("INSERT"),
       Chars("UPDATE"),
       Chars("DELETE"),
       Chars("DROP"),
       Chars("CREATE"),
       Chars("ALTER"),
       Chars("EXEC"),
       Chars("EXECUTE"),
       Chars("SP_"),
       Chars("XP_"),
       Chars("TRUNCATE"),
       Chars("MERGE"),
       Chars("GRANT"),
       Chars("REVOKE"),
       Chars("DENY") >>

\* new RegExp(`\\b${keyword}\\b`, 'i').test(query)
keywordRegexTest(keyword, query) ==
    \E i \in 1..Len(query) :
        /\ WordBoundary(query, i)
        /\ OccursAtCI(query, i, keyword)
        /\ WordBoundary(query, i + Len(keyword))

\* the dangerousPatterns table: pattern k tested on the query, and its error
dangerousPatternTest(k, query) ==
    CASE k = 1 -> \E i \in 1..Len(query) :
                      /\ query[i] = ";"
                      /\ OccursAtCI(query, SkipSpaces(query, i + 1), kwSELECT)
      [] k = 2 -> includes(query, Chars("--"))
      [] k = 3 -> includes(query, Chars("/*"))
      [] k = 4 -> \E i \in 1..Len(query) :
                      WordsOccurAtCI(query, i,
                          << Chars("UNION"), Chars("ALL"), kwSELECT >>)
      [] k = 5 -> \E i \in 1..Len(query) :
                      WordsOccurAtCI(query, i, << Chars("UNION"), kwSELECT >>)
      [] k = 6 -> \E i \in 1..Len(query) :
                      WordsOccurAtCI(query, i,
                          << Chars("INTO"), Chars("OUTFILE") >>)
      [] k = 7 -> \E i \in 1..Len(query) :
                      WordsOccurAtCI(query, i,
                          << Chars("INTO"), Chars("DUMPFILE") >>)
      [] k = 8 -> \E i \in 1..Len(query) :
                      OccursAtCI(query, i, Chars("LOAD_FILE"))

dangerousPatternError ==
    << "Stacked queries are not allowed",
       "SQL comments (--) are not allowed",
       "Multi-line comments are not allowed",
       "UNION ALL injection detected",
       "UNION injection detected",
       "File operations are not allowed",
       "File operations are not allowed",
       "File operations are not allowed" >>

\* the keyword loop of validateQuery: the first keyword of the list that matches
firstDangerousKeyword(query) ==
    LET hits == {k \in 1..Len(dangerousKeywords) :
                    keywordRegexTest(dangerousKeywords[k], query)}
    IN  IF hits = {} THEN 0 ELSE CHOOSE k \in hits : \A j \in hits : k <= j

\* the pattern loop of validateQuery: the first pattern of the table that matches
firstDangerousPattern(query) ==
    LET hits == {k \in 1..Len(dangerousPatternError) : dangerousPatternTest(k, query)}
    IN  IF hits = {} THEN 0 ELSE CHOOSE k \in hits : \A j \in hits : k <= j

\* validateQuery(query); the empty string stands for every falsy body value
validateQuery(query) ==
    IF query = <<>>
    THEN Invalid(Chars("Query is required and must be a string"))
    ELSE IF ~startsWith(toUpperCase(trim(query)), kwSELECT)
    THEN Invalid(Chars("Only SELECT queries are allowed"))
    ELSE IF firstDangerousKeyword(query) # 0
    THEN Invalid(Chars("Dangerous keyword detected: ")
                 \o dangerousKeywords[firstDangerousKeyword(query)])
    ELSE IF firstDangerousPattern(query) # 0
    THEN Invalid(Chars(dangerousPatternError[firstDangerousPattern(query)]))
    ELSE Valid

\* validateTableName with the pattern left unanchored:
\* /[a-zA-Z_][a-zA-Z0-9_\s]*/
validateTableNameUnanchored(tableName) ==
    IF tableName = <<>>
    THEN Invalid(Chars("Table name is required"))
    ELSE IF ~(\E i \in 1..Len(tableName) :
                 IsLetter(tableName[i]) \/ tableName[i] = "_")
    THEN Invalid(Chars("Invalid table name format"))
    ELSE Valid

\* /^[a-zA-Z_][a-zA-Z0-9_\s]*$/
validateTableName(tableName) ==
    IF tableName = <<>>
    THEN Invalid(Chars("Table name is required"))
    ELSE IF ~(/\ (IsLetter(tableName[1]) \/ tableName[1] = "_")
              /\ \A i \in 2..Len(tableName) :
                     IsWordChar(tableName[i]) \/ IsSpace(tableName[i]))
    THEN Invalid(Chars("Invalid table name format"))
    ELSE Valid

\* /^[a-zA-Z_][a-zA-Z0-9_-]*$/
validateDatabaseName(databaseName) ==
    IF databaseName = <<>>
    THEN Invalid(Chars("Database name is required"))
    ELSE IF ~(/\ (IsLetter(databaseName[1]) \/ databaseName[1] = "_")
              /\ \A i \in 2..Len(databaseName) :
                     IsWordChar(databaseName[i]) \/ databaseName[i] = "-")
    THEN Invalid(Chars("Invalid database name format"))
    ELSE Valid

ProcNameMaxTail == 127

\* /^[a-zA-Z_][a-zA-Z0-9_]{0,127}$/
validateStoredProcedureName(name) ==
    IF name = <<>>
    THEN Invalid(Chars("Stored procedure name is required"))
    ELSE IF ~(/\ (IsLetter(name[1]) \/ name[1] = "_")
              /\ Len(name) - 1 <= ProcNameMaxTail
              /\ \A i \in 2..Len(name) : IsWordChar(name[i]))
    THEN Invalid(Chars("Invalid stored procedure name format"))
    ELSE Valid

(***************************************************************************)
(* db-connector.js: the whitelist.                                         *)
(***************************************************************************)
\* process.env.ALLOWED_DATABASES ? split(',').map(trim, toLowerCase) : [];
\* an unset variable and the empty string are both falsy
buildAllowedDatabases(env) ==
    IF env = <<>> THEN <<>>
    ELSE LET parts == split(env, ",")
         IN  [i \in 1..Len(parts) |-> toLowerCase(trim(parts[i]))]

(***************************************************************************)
(* The state: the whitelist built at startup, the module-level pool of     *)
(* db-connector.js, the database context of each pooled connection, and    *)
(* the requests in flight.                                                 *)
(***************************************************************************)
VARIABLES
    env,                \* process.env.ALLOWED_DATABASES (<<>>: unset or empty)
    allowedDatabases,   \* db-connector.js: const allowedDatabases
    pool,               \* db-connector.js: let pool ("null" or "open")
    connectCalls,       \* number of sql.connect(config) calls made so far
    connCtx,            \* the database each pooled connection is switched to
    req,                \* the route handler invocations, one per request slot
    probe               \* a single validator call made on its own

vars == <<env, allowedDatabases, pool, connectCalls, connCtx, req, probe>>

MaxReq == 2

\* pool: { min: 2 }: the connections the pool keeps open
NumConns == 2

Requests == 1..MaxReq

Conns == 1..NumConns

\* config names no database: a fresh connection is in the login's default one
DefaultContext == Chars("master")

RECURSIVE join(_, _)
join(a, sep) ==
    IF a = <<>> THEN <<>>
    ELSE IF Len(a) = 1 THEN a[1]
    ELSE a[1] \o sep \o join(Tail(a), sep)

\* validateDatabase comparing the name as given, without toLowerCase
validateDatabaseCaseSensitive(database) ==
    IF Len(allowedDatabases) = 0
    THEN Invalid(Chars("No databases are configured in the whitelist"))
    ELSE IF ~arrayIncludes(allowedDatabases, database)
    THEN Invalid(Chars("Database '") \o database
                 \o Chars("' is not allowed. Allowed databases: ")
                 \o join(allowedDatabases, Chars(", ")))
    ELSE Valid

\* validateDatabase(database), as a result instead of an exception: the error
\* is the message of the Error it throws
validateDatabase(database) ==
    IF Len(allowedDatabases) = 0
    THEN Invalid(Chars("No databases are configured in the whitelist"))
    ELSE IF ~arrayIncludes(allowedDatabases, toLowerCase(database))
    THEN Invalid(Chars("Database '") \o database
                 \o Chars("' is not allowed. Allowed databases: ")
                 \o join(allowedDatabases, Chars(", ")))
    ELSE Valid

(***************************************************************************)
(* routes/query.js: the statements.  A statement is the sequence of the    *)
(* fixed fragments of its template literal (kind "sql", whitespace         *)
(* collapsed) and of the values interpolated into it.                      *)
(***************************************************************************)
Sql(text) == [kind |-> "sql", lit |-> text, val |-> <<>>]

Arg(kind, value) == [kind |-> kind, lit |-> "", val |-> value]

\* the text the database receives
RECURSIVE Text(_)
Text(stmt) ==
    IF stmt = <<>> THEN <<>>
    ELSE (IF Head(stmt).kind = "sql" THEN Chars(Head(stmt).lit) ELSE Head(stmt).val)
         \o Text(Tail(stmt))

useStatement(database) == <<Sql("USE ["), Arg("database", database), Sql("]")>>

tablesQuery ==
    <<Sql("SELECT TABLE_NAME FROM INFORMATION_SCHEMA.TABLES WHERE TABLE_TYPE = 'BASE TABLE' ORDER BY TABLE_NAME")>>

schemaQuery(table) ==
    <<Sql("SELECT COLUMN_NAME as name, DATA_TYPE as type, CHARACTER_MAXIMUM_LENGTH as maxLength, IS_NULLABLE as nullable, COLUMN_DEFAULT as defaultValue FROM INFORMATION_SCHEMA.COLUMNS WHERE TABLE_NAME = '"),
      Arg("table", table),
      Sql("' ORDER BY ORDINAL_POSITION")>>

countQuery(table) ==
    <<Sql("SELECT COUNT(*) as rowCount FROM ["), Arg("table", table), Sql("]")>>

columnQuery(table) ==
    <<Sql("SELECT COUNT(*) as columnCount FROM INFORMATION_SCHEMA.COLUMNS WHERE TABLE_NAME = '"),
      Arg("table", table),
      Sql("'")>>

sizeQuery(table) ==
    <<Sql("SELECT SUM(reserved_page_count) * 8 as sizeKB FROM sys.dm_db_partition_stats WHERE object_id = OBJECT_ID('"),
      Arg("table", table),
      Sql("')")>>

proceduresQuery ==
    <<Sql("SELECT ROUTINE_NAME, CREATED, LAST_ALTERED FROM INFORMATION_SCHEMA.ROUTINES WHERE ROUTINE_TYPE = 'PROCEDURE' ORDER BY ROUTINE_NAME")>>

infoQuery(procedure) ==
    <<Sql("SELECT ROUTINE_NAME, ROUTINE_DEFINITION, CREATED, LAST_ALTERED FROM INFORMATION_SCHEMA.ROUTINES WHERE ROUTINE_NAME = '"),
      Arg("procedure", procedure),
      Sql("' AND ROUTINE_TYPE = 'PROCEDURE'")>>

paramsQuery(procedure) ==
    <<Sql("SELECT PARAMETER_NAME, DATA_TYPE, PARAMETER_MODE, CHARACTER_MAXIMUM_LENGTH FROM INFORMATION_SCHEMA.PARAMETERS WHERE SPECIFIC_NAME = '"),
      Arg("procedure", procedure),
      Sql("' ORDER BY ORDINAL_POSITION")>>

definitionQuery(procedure) ==
    <<Sql("SELECT ROUTINE_DEFINITION FROM INFORMATION_SCHEMA.ROUTINES WHERE ROUTINE_NAME = '"),
      Arg("procedure", procedure),
      Sql("' AND ROUTINE_TYPE = 'PROCEDURE'")>>

checkQuery(procedure) ==
    <<Sql("SELECT ROUTINE_NAME FROM INFORMATION_SCHEMA.ROUTINES WHERE ROUTINE_NAME = '"),
      Arg("procedure", procedure),
      Sql("' AND ROUTINE_TYPE = 'PROCEDURE'")>>

(***************************************************************************)
(* POST /databases/:database/query: the row cap.                           *)
(***************************************************************************)
\* query.toUpperCase().includes('TOP ')
hasTop(query) == includes(toUpperCase(query), Chars("TOP "))

\* query.replace(/SELECT/i, 'SELECT TOP 1000'): the first match only
replaceSelect(query) ==
    LET at == {i \in 1..Len(query) : OccursAtCI(query, i, kwSELECT)}
    IN  IF at = {} THEN query
        ELSE LET i == CHOOSE k \in at : \A j \in at : k <= j
             IN  SubSeq(query, 1, i - 1) \o Chars("SELECT TOP 1000")
                 \o SubSeq(query, i + Len(kwSELECT), Len(query))

finalQuery(query) == IF ~hasTop(query) THEN replaceSelect(query) ELSE query

(***************************************************************************)
(* POST /databases/:database/tables/:table/data: limit and columns.        *)
(***************************************************************************)
DefaultLimit == 1000

MaxLimit == 1000

Max(a, b) == IF a >= b THEN a ELSE b

Min(a, b) == IF a <= b THEN a ELSE b

\* Math.min(Math.max(1, parseInt(limit) || 1000), 1000), limit an integer; a
\* limit that parseInt turns into NaN behaves as 0 does
safeLimit(limit) ==
    Min(Max(1, IF limit = 0 THEN DefaultLimit ELSE limit), MaxLimit)

\* the decimal digits of a positive integer
RECURSIVE numberToString(_)
numberToString(n) ==
    IF n < 10 THEN <<Chars("0123456789")[n + 1]>>
    ELSE numberToString(n \div 10) \o <<Chars("0123456789")[(n % 10) + 1]>>

\* /^[a-zA-Z0-9_,\s*]+$/.test(columns), '*' otherwise
safeColumns(columns) ==
    IF columns = Chars("*") THEN Chars("*")
    ELSE IF /\ columns # <<>>
            /\ \A i \in 1..Len(columns) :
                   \/ IsWordChar(columns[i])
                   \/ IsSpace(columns[i])
                   \/ columns[i] \in {",", "*"}
    THEN columns
    ELSE Chars("*")

dataQuery(table, limit, columns) ==
    <<Sql("SELECT TOP "), Arg("limit", numberToString(safeLimit(limit))), Sql(" "),
      Arg("columns", safeColumns(columns)), Sql(" FROM ["), Arg("table", table), Sql("]")>>

(***************************************************************************)
(* A request slot: the inputs of the request, the position of its handler, *)
(* and what has happened for it so far (gates run, statements executed).   *)
(***************************************************************************)
IdleRequest ==
    [pc        |-> "idle",   \* idle, connect, use, query, done
     op        |-> "",
     database  |-> <<>>,
     table     |-> <<>>,
     procedure |-> <<>>,
     query     |-> <<>>,
     columns   |-> <<>>,
     limit     |-> 0,
     gates     |-> <<>>,     \* the validators called, in call order
     pooled    |-> FALSE,    \* getPool() was called for this request
     poolUse   |-> "live",   \* the pool object the request holds: live, closed
                             \* (closePool closed it), sentOnClosed (the
                             \* request issued a statement on it after that)
     stage     |-> "",       \* the handler's statement being executed
     cur       |-> <<>>,     \* the statement passed to executeQuery
     sent      |-> <<>>,     \* the statements the database was given, each
                             \* with the database its connection was in
                             \* and whether it succeeded
     status    |-> 0,        \* res.status(...)
     error     |-> <<>>,     \* the error of the response body
     limited   |-> FALSE]    \* the limited field of the response body

Gate(name, result) == [gate |-> name, result |-> result]

\* res.status(status).json(...): the handler is finished
Respond(r, rec, status, error) ==
    req' = [req EXCEPT ![r] =
               [rec EXCEPT !.pc = "done", !.status = status, !.error = error,
                           !.cur = <<>>]]

\* catch (error): error.message.includes('not allowed') ? 403 : 500
catch(r, rec, message) ==
    Respond(r, rec, IF includes(message, Chars("not allowed")) THEN 403 ELSE 500,
            message)

\* a handler that issues a failed statement once more
thrownRetry(r, rec, message) ==
    IF rec.pc = "query" /\ Len(rec.sent) = 2
    THEN req' = [req EXCEPT ![r] = [rec EXCEPT !.pc = "use"]]
    ELSE IF rec.op = "tableStats" /\ rec.stage = "sizeQuery"
    THEN Respond(r, rec, 200, <<>>)
    ELSE catch(r, rec, message)

\* an exception out of executeQuery: the sizeQuery call of the stats handler
\* sits in its own try/catch, which ignores it and answers; every other call
\* is caught by the handler's catch
thrown(r, rec, message) ==
    IF rec.op = "tableStats" /\ rec.stage = "sizeQuery"
    THEN Respond(r, rec, 200, <<>>)
    ELSE catch(r, rec, message)

\* executeQuery calling getPool() before validateDatabase
executeQueryPoolFirst(r, rec, stage, stmt) ==
    LET auth == validateDatabase(rec.database)
        rec1 == [rec EXCEPT !.stage = stage, !.pooled = TRUE,
                            !.gates = Append(@, "validateDatabase")]
    IN  IF ~auth.valid
        THEN /\ thrown(r, rec1, auth.error)
             /\ connectCalls' =
                    IF pool = "null" THEN connectCalls + 1 ELSE connectCalls
        ELSE /\ req' = [req EXCEPT ![r] =
                           [rec1 EXCEPT !.cur = stmt,
                                        !.poolUse = IF pool = "closing"
                                                    THEN "sentOnClosed" ELSE @,
                                        !.pc = IF pool = "null" THEN "connect"
                                               ELSE "use"]]
             /\ connectCalls' =
                    IF pool = "null" THEN connectCalls + 1 ELSE connectCalls

\* executeQuery(database, query) up to its first await: validateDatabase,
\* then getPool(), which calls sql.connect when pool is unset
executeQuery(r, rec, stage, stmt) ==
    LET auth == validateDatabase(rec.database)
        rec1 == [rec EXCEPT !.stage = stage,
                            !.gates = Append(@, "validateDatabase")]
    IN  IF ~auth.valid
        THEN /\ thrown(r, rec1, auth.error)
             /\ UNCHANGED connectCalls
        ELSE /\ req' = [req EXCEPT ![r] =
                           [rec1 EXCEPT !.pooled = TRUE, !.cur = stmt,
                                        !.poolUse = IF pool = "closing"
                                                    THEN "sentOnClosed" ELSE @,
                                        !.pc = IF pool = "null" THEN "connect"
                                               ELSE "use"]]
             /\ connectCalls' =
                    IF pool = "null" THEN connectCalls + 1 ELSE connectCalls

\* the validations of a route handler, in the order written: the index of
\* the first one that fails (0 if none), and the validators called until then
failedGate(checks) ==
    LET bad == {i \in 1..Len(checks) : ~checks[i].result.valid}
    IN  IF bad = {} THEN 0 ELSE CHOOSE i \in bad : \A j \in bad : i <= j

gatesRun(checks) ==
    [i \in 1..(IF failedGate(checks) = 0 THEN Len(checks) ELSE failedGate(checks))
        |-> checks[i].gate]

\* a route handler that checks the whitelist before its validations
routeWhitelistFirst(r, rec, checks, stage, stmt) ==
    LET auth == validateDatabase(rec.database)
        k    == failedGate(checks)
        rec1 == [rec EXCEPT !.gates = <<"validateDatabase">> \o gatesRun(checks)]
    IN  IF ~auth.valid
        THEN /\ catch(r, [rec EXCEPT !.gates = <<"validateDatabase">>], auth.error)
             /\ UNCHANGED connectCalls
        ELSE IF k # 0
        THEN /\ Respond(r, rec1, 400, checks[k].result.error)
             /\ UNCHANGED connectCalls
        ELSE executeQuery(r, rec1, stage, stmt)

\* a route handler up to its first await: the first validation that fails
\* answers 400 with its error, else the handler calls executeQuery
route(r, rec, checks, stage, stmt) ==
    LET k    == failedGate(checks)
        rec1 == [rec EXCEPT !.gates = gatesRun(checks)]
    IN  IF k # 0
        THEN /\ Respond(r, rec1, 400, checks[k].result.error)
             /\ UNCHANGED connectCalls
        ELSE executeQuery(r, rec1, stage, stmt)

(***************************************************************************)
(* The route handlers, each up to its first await.                         *)
(***************************************************************************)
\* GET /databases/:database/tables
GetTables(r, database) ==
    /\ req[r].pc = "idle"
    /\ route(r, [req[r] EXCEPT !.op = "listTables", !.database = database],
             <<Gate("validateDatabaseName", validateDatabaseName(database))>>,
             "query", tablesQuery)
    /\ UNCHANGED <<env, allowedDatabases, pool, connCtx, probe>>

\* GET /databases/:database/tables/:table/schema
GetTableSchema(r, database, table) ==
    /\ req[r].pc = "idle"
    /\ route(r, [req[r] EXCEPT !.op = "tableSchema", !.database = database,
                               !.table = table],
             <<Gate("validateDatabaseName", validateDatabaseName(database)),
               Gate("validateTableName", validateTableName(table))>>,
             "query", schemaQuery(table))
    /\ UNCHANGED <<env, allowedDatabases, pool, connCtx, probe>>

\* GET /databases/:database/tables/:table/stats
GetTableStats(r, database, table) ==
    /\ req[r].pc = "idle"
    /\ route(r, [req[r] EXCEPT !.op = "tableStats", !.database = database,
                               !.table = table],
             <<Gate("validateDatabaseName", validateDatabaseName(database)),
               Gate("validateTableName", validateTableName(table))>>,
             "countQuery", countQuery(table))
    /\ UNCHANGED <<env, allowedDatabases, pool, connCtx, probe>>

\* POST /databases/:database/query
PostQuery(r, database, query) ==
    /\ req[r].pc = "idle"
    /\ route(r, [req[r] EXCEPT !.op = "adHocQuery", !.database = database,
                               !.query = query],
             <<Gate("validateDatabaseName", validateDatabaseName(database)),
               Gate("validateQuery", validateQuery(query))>>,
             "query", <<Arg("query", finalQuery(query))>>)
    /\ UNCHANGED <<env, allowedDatabases, pool, connCtx, probe>>

\* POST /databases/:database/tables/:table/data
PostTableData(r, database, table, limit, columns) ==
    /\ req[r].pc = "idle"
    /\ route(r, [req[r] EXCEPT !.op = "tableData", !.database = database,
                               !.table = table, !.limit = limit,
                               !.columns = columns],
             <<Gate("validateDatabaseName", validateDatabaseName(database)),
               Gate("validateTableName", validateTableName(table))>>,
             "query", dataQuery(table, limit, columns))
    /\ UNCHANGED <<env, allowedDatabases, pool, connCtx, probe>>

\* GET /databases/:database/stored-procedures
GetStoredProcedures(r, database) ==
    /\ req[r].pc = "idle"
    /\ route(r, [req[r] EXCEPT !.op = "listProcedures", !.database = database],
             <<Gate("validateDatabaseName", validateDatabaseName(database))>>,
             "query", proceduresQuery)
    /\ UNCHANGED <<env, allowedDatabases, pool, connCtx, probe>>

\* GET /databases/:database/stored-procedures/:procedure
GetStoredProcedure(r, database, procedure) ==
    /\ req[r].pc = "idle"
    /\ route(r, [req[r] EXCEPT !.op = "procedureInfo", !.database = database,
                               !.procedure = procedure],
             <<Gate("validateDatabaseName", validateDatabaseName(database)),
               Gate("validateStoredProcedureName",
                    validateStoredProcedureName(procedure))>>,
             "infoQuery", infoQuery(procedure))
    /\ UNCHANGED <<env, allowedDatabases, pool, connCtx, probe>>

\* GET /databases/:database/stored-procedures/:procedure/definition
GetStoredProcedureDefinition(r, database, procedure) ==
    /\ req[r].pc = "idle"
    /\ route(r, [req[r] EXCEPT !.op = "procedureDefinition",
                               !.database = database, !.procedure = procedure],
             <<Gate("validateDatabaseName", validateDatabaseName(database)),
               Gate("validateStoredProcedureName",
                    validateStoredProcedureName(procedure))>>,
             "query", definitionQuery(procedure))
    /\ UNCHANGED <<env, allowedDatabases, pool, connCtx, probe>>

\* GET /databases/:database/stored-procedures/:procedure/parameters
GetStoredProcedureParameters(r, database, procedure) ==
    /\ req[r].pc = "idle"
    /\ route(r, [req[r] EXCEPT !.op = "procedureParameters",
                               !.database = database, !.procedure = procedure],
             <<Gate("validateDatabaseName", validateDatabaseName(database)),
               Gate("validateStoredProcedureName",
                    validateStoredProcedureName(procedure))>>,
             "checkQuery", checkQuery(procedure))
    /\ UNCHANGED <<env, allowedDatabases, pool, connCtx, probe>>

\* POST /databases/:database/stored-procedures/execute: the handler calls
\* executeStoredProcedure, which db-connector.js does not export, so the call
\* throws a TypeError inside the try block
PostExecuteStoredProcedure(r, database, procedure) ==
    /\ req[r].pc = "idle"
    /\ LET checks ==
               <<Gate("validateDatabaseName", validateDatabaseName(database)),
                 Gate("procedure",
                      IF procedure = <<>>
                      THEN Invalid(Chars("Stored procedure name is required"))
                      ELSE Valid),
                 Gate("validateStoredProcedureName",
                      validateStoredProcedureName(procedure))>>
           k    == failedGate(checks)
           rec1 == [req[r] EXCEPT !.op = "invokeProcedure", !.database = database,
                                  !.procedure = procedure,
                                  !.gates = gatesRun(checks)]
       IN  IF k # 0
           THEN Respond(r, rec1, 400, checks[k].result.error)
           ELSE catch(r, rec1, Chars("executeStoredProcedure is not a function"))
    /\ UNCHANGED <<env, allowedDatabases, pool, connectCalls, connCtx, probe>>

(***************************************************************************)
(* The awaits of executeQuery and what each handler does with the rows.    *)
(***************************************************************************)
\* messages of the errors the database client raises: a failed connect, a
\* failed USE, and two failures of a statement
ConnectFault == Chars("Login failed for user")

UseFault == Chars("Database does not exist")

FaultMessages ==
    {Chars("Connection is closed."), Chars("Implicit conversion is not allowed.")}

tableNotFound(rec) ==
    Chars("Table '") \o rec.table \o Chars("' not found in database '")
    \o rec.database \o Chars("'")

procedureNotFound(rec) ==
    Chars("Stored procedure '") \o rec.procedure
    \o Chars("' not found in database '") \o rec.database \o Chars("'")

\* the handler after executeQuery returned its rows ("rows": at least one,
\* "empty": none)
afterQuery(r, rec, result) ==
    CASE rec.op = "tableSchema" /\ result = "empty" ->
             /\ Respond(r, rec, 404, tableNotFound(rec))
             /\ UNCHANGED connectCalls
      [] rec.op = "tableStats" /\ rec.stage = "countQuery" ->
             executeQuery(r, rec, "columnQuery", columnQuery(rec.table))
      [] rec.op = "tableStats" /\ rec.stage = "columnQuery" ->
             executeQuery(r, rec, "sizeQuery", sizeQuery(rec.table))
      [] rec.op = "procedureInfo" /\ rec.stage = "infoQuery" /\ result = "empty" ->
             /\ Respond(r, rec, 404, procedureNotFound(rec))
             /\ UNCHANGED connectCalls
      [] rec.op = "procedureInfo" /\ rec.stage = "infoQuery" /\ result = "rows" ->
             executeQuery(r, rec, "paramsQuery", paramsQuery(rec.procedure))
      [] rec.op = "procedureDefinition" /\ result = "empty" ->
             /\ Respond(r, rec, 404, procedureNotFound(rec))
             /\ UNCHANGED connectCalls
      [] rec.op = "procedureParameters" /\ rec.stage = "checkQuery"
           /\ result = "empty" ->
             /\ Respond(r, rec, 404, procedureNotFound(rec))
             /\ UNCHANGED connectCalls
      [] rec.op = "procedureParameters" /\ rec.stage = "checkQuery"
           /\ result = "rows" ->
             executeQuery(r, rec, "query", paramsQuery(rec.procedure))
      [] OTHER ->
             /\ Respond(r, [rec EXCEPT !.limited =
                               rec.op = "adHocQuery" /\ ~hasTop(rec.query)],
                        200, <<>>)
             /\ UNCHANGED connectCalls

\* getPool: pool = await sql.connect(config). "reopened": the variable holds
\* the new pool while a closePool call is still to set it to null
ConnectDone(r, ok) ==
    /\ req[r].pc = "connect"
    /\ IF ok
       THEN /\ pool' = IF pool = "closing" THEN "reopened" ELSE "open"
            /\ req' = [req EXCEPT ![r].pc = "use"]
       ELSE /\ thrown(r, req[r], ConnectFault)
            /\ UNCHANGED pool
    /\ UNCHANGED <<env, allowedDatabases, connectCalls, connCtx, probe>>

\* await request.query(`USE [${database}]`): the pool runs it on one of its
\* connections, which is switched to the database
UseDone(r, c, ok) ==
    /\ req[r].pc = "use"
    /\ LET rec1 == [req[r] EXCEPT !.sent =
                       Append(@, [stmt |-> useStatement(req[r].database),
                                  ctx  |-> <<>>, ok |-> ok])]
       IN  IF ok
           THEN /\ connCtx' = [connCtx EXCEPT ![c] = toLowerCase(req[r].database)]
                /\ req' = [req EXCEPT ![r] =
                              [rec1 EXCEPT !.pc = "query",
                                           !.poolUse = IF @ = "closed"
                                                       THEN "sentOnClosed" ELSE @]]
           ELSE /\ thrown(r, rec1, UseFault)
                /\ UNCHANGED connCtx
    /\ UNCHANGED <<env, allowedDatabases, pool, connectCalls, probe>>

\* await request.query(query): the pool runs it on one of its connections, in
\* the database that connection is switched to
QueryDone(r, c, result, message) ==
    /\ req[r].pc = "query"
    /\ LET rec1 == [req[r] EXCEPT !.sent =
                       Append(@, [stmt |-> req[r].cur, ctx |-> connCtx[c],
                                  ok   |-> result # "error"])]
       IN  IF result = "error"
           THEN /\ thrown(r, rec1, message)
                /\ UNCHANGED connectCalls
           ELSE afterQuery(r, rec1, result)
    /\ UNCHANGED <<env, allowedDatabases, pool, connCtx, probe>>

\* the awaits of the requests in flight
Await ==
    \E r \in Requests :
        \/ \E ok \in BOOLEAN : ConnectDone(r, ok)
        \/ \E c \in Conns, ok \in BOOLEAN : UseDone(r, c, ok)
        \/ \E c \in Conns, res \in {"rows", "empty", "error"}, m \in FaultMessages :
               QueryDone(r, c, res, m)

(***************************************************************************)
(* The gateway serving concurrent requests of every kind.                  *)
(***************************************************************************)
EnvValues == {<<>>, Chars("Sales, HR")}

Databases == {Chars("Sales"), Chars("reporting"), Chars("hr]")}

\* the databases the concurrent requests of the other slots name
OtherDatabases == {Chars("hr"), Chars("reporting")}

Tables == {Chars("Orders"), Chars("Orders]; --")}

Procedures == {Chars("GetOrders"), Chars("p'q")}

Queries == {Chars("SELECT 1"), Chars("DROP TABLE Orders")}

NoProbe == [fn |-> "", arg |-> <<>>, result |-> Valid]

Start(envValues) ==
    /\ env \in envValues
    /\ allowedDatabases = buildAllowedDatabases(env)
    /\ pool = "null"
    /\ connectCalls = 0
    /\ connCtx = [c \in Conns |-> DefaultContext]
    /\ req = [r \in Requests |-> IdleRequest]
    /\ probe = NoProbe

Init == Start(EnvValues)

\* slot 1 takes a request of any kind; the other slots are concurrent
\* requests for the table list, arriving in slot order
Arrives(r) == r > 1 /\ (IF r = 2 THEN TRUE ELSE req[r - 1].pc # "idle")

Next ==
    \/ \E database \in Databases : GetTables(1, database)
    \/ \E database \in Databases, table \in Tables :
           GetTableSchema(1, database, table)
    \/ \E database \in Databases, table \in Tables :
           GetTableStats(1, database, table)
    \/ \E database \in Databases, query \in Queries :
           PostQuery(1, database, query)
    \/ \E database \in Databases, table \in Tables :
           PostTableData(1, database, table, 0, Chars("*"))
    \/ \E database \in Databases : GetStoredProcedures(1, database)
    \/ \E database \in Databases, procedure \in Procedures :
           GetStoredProcedure(1, database, procedure)
    \/ \E database \in Databases, procedure \in Procedures :
           GetStoredProcedureDefinition(1, database, procedure)
    \/ \E database \in Databases, procedure \in Procedures :
           GetStoredProcedureParameters(1, database, procedure)
    \/ \E database \in Databases, procedure \in Procedures :
           PostExecuteStoredProcedure(1, database, procedure)
    \/ \E r \in Requests, database \in OtherDatabases :
           Arrives(r) /\ GetTables(r, database)
    \/ Await

Spec == Init /\ [][Next]_vars

(***************************************************************************)
(* The ad-hoc query route on its own, over a larger set of statements: a   *)
(* head, an object name and up to MaxSuffixes further fragments.           *)
(***************************************************************************)
MaxSuffixes == 1

QueryHeads ==
    {Chars("SELECT * FROM "), Chars("select name from "),
     Chars("SELECT TOP 5 * FROM "), Chars("SELECT TOP(5) * FROM "),
     Chars("  SELECT id FROM "), Chars("DELETE FROM ")}

QueryObjects ==
    {Chars("Orders"), Chars("Laptop"), Chars("INSERTED_AT"), Chars("xp_cmdshell"),
     Chars("sp_executesql"), Chars("otherdb.dbo.Orders")}

QuerySuffixes ==
    {Chars(" WHERE id = 1"), Chars("; DROP TABLE Orders"), Chars("; SHUTDOWN"),
     Chars("; SELECT 1"), Chars(" UNION SELECT 1"), Chars(" -- x"), Chars(";")}

RECURSIVE SuffixRuns(_)
SuffixRuns(n) ==
    IF n = 0 THEN {<<>>}
    ELSE SuffixRuns(n - 1)
         \cup {run \o suffix : run \in SuffixRuns(n - 1), suffix \in QuerySuffixes}

AdHocQueries ==
    {<<>>} \cup {head \o object \o run :
                    head \in QueryHeads, object \in QueryObjects,
                    run \in SuffixRuns(MaxSuffixes)}

NextAdHoc ==
    \/ \E database \in {Chars("Sales"), Chars("reporting")}, query \in AdHocQueries :
           PostQuery(1, database, query)
    \/ Await

SpecAdHoc == Init /\ [][NextAdHoc]_vars

(***************************************************************************)
(* The table-data route on its own, over a larger set of projections: up   *)
(* to MaxColumnWords words separated by single spaces.                     *)
(***************************************************************************)
MaxColumnWords == 3

ColumnWords ==
    {Chars("*"), Chars("name,"), Chars("1"), Chars("FROM"), Chars("Secrets"),
     Chars("DELETE"), Chars(";")}

RECURSIVE ColumnLists(_)
ColumnLists(n) ==
    IF n = 0 THEN {<<>>}
    ELSE ColumnLists(n - 1)
         \cup {IF list = <<>> THEN word ELSE list \o Chars(" ") \o word :
                  list \in ColumnLists(n - 1), word \in ColumnWords}

ColumnChoices == ColumnLists(MaxColumnWords)

Limits == {-5, 0, 5000}

NextTableData ==
    \/ \E database \in {Chars("Sales"), Chars("reporting")},
          table \in {Chars("Order Details"), Chars("Orders]")},
          limit \in Limits, columns \in ColumnChoices :
           PostTableData(1, database, table, limit, columns)
    \/ Await

SpecTableData == Init /\ [][NextTableData]_vars

(***************************************************************************)
(* validateDatabase on its own, over every name of up to MaxNameLen        *)
(* characters and several settings of ALLOWED_DATABASES.                   *)
(***************************************************************************)
MaxNameLen == 3

NameChars == {"h", "H", "r", "R", "d", " ", ","}

AuthEnvValues ==
    {<<>>, Chars("hr"), Chars("Hr,Rd"), Chars(" HR , d "), Chars(","),
     Chars("sales")}

AuthNames ==
    UNION {[1..n -> NameChars] : n \in 0..MaxNameLen}
    \cup {Chars("Sales"), Chars("sales"), Chars("SALES"), Chars("reporting")}

\* validateDatabase(name), called on its own
Authorize(name) ==
    /\ probe.fn = ""
    /\ probe' = [fn |-> "validateDatabase", arg |-> name,
                 result |-> validateDatabase(name)]
    /\ UNCHANGED <<env, allowedDatabases, pool, connectCalls, connCtx, req>>

InitAuth == Start(AuthEnvValues)

NextAuth == \E name \in AuthNames : Authorize(name)

SpecAuth == InitAuth /\ [][NextAuth]_vars

(***************************************************************************)
(* Shutdown: the SIGTERM and SIGINT handlers call closePool while requests *)
(* are in flight. A second signal while a close is in progress is left     *)
(* out.                                                                    *)
(***************************************************************************)
\* closePool up to its await: if (pool) await pool.close(). The pool object
\* is closed; the module variable still refers to it, and so does every
\* request that is between getPool() and the end of executeQuery
ClosePool ==
    /\ pool = "open"
    /\ pool' = "closing"
    /\ req' = [r \in Requests |->
                 IF req[r].pc \in {"use", "query"} /\ req[r].poolUse = "live"
                 THEN [req[r] EXCEPT !.poolUse = "closed"]
                 ELSE req[r]]
    /\ UNCHANGED <<env, allowedDatabases, connectCalls, connCtx, probe>>

\* closePool after its await: pool = null. connectCalls counts the calls of
\* sql.connect since the pool was last closed
ClosePoolDone ==
    /\ pool \in {"closing", "reopened"}
    /\ pool' = "null"
    /\ connectCalls' = 0
    /\ UNCHANGED <<env, allowedDatabases, connCtx, req, probe>>

NextShutdown ==
    \/ \E database \in {Chars("Sales"), Chars("reporting")} : GetTables(1, database)
    \/ GetTableStats(1, Chars("Sales"), Chars("Orders"))
    \/ \E r \in Requests, database \in OtherDatabases :
           Arrives(r) /\ GetTables(r, database)
    \/ Await
    \/ ClosePool
    \/ ClosePoolDone

SpecShutdown == Init /\ [][NextShutdown]_vars

(***************************************************************************)
(* The operations that take a table or procedure name, against a database  *)
(* in which some of the named objects do not exist. A lookup in the        *)
(* catalogue views (INFORMATION_SCHEMA, sys.procedures, sys.parameters)    *)
(* for an absent object returns no rows; a statement that reads the absent *)
(* table itself is rejected by the server.                                 *)
(***************************************************************************)
ExistingTables == {Chars("Orders")}

ExistingProcedures == {Chars("GetOrders")}

CatalogueTables == ExistingTables \cup {Chars("Missing")}

CatalogueProcedures == ExistingProcedures \cup {Chars("usp_Missing")}

InvalidObjectFault == Chars("Invalid object name")

\* the object named by the request is not in the database
Absent(rec) ==
    \/ rec.op \in {"tableSchema", "tableStats", "tableData"}
         /\ rec.table \notin ExistingTables
    \/ rec.op \in {"procedureInfo", "procedureDefinition", "procedureParameters"}
         /\ rec.procedure \notin ExistingProcedures

\* the statement in flight looks the object up in the catalogue views
CatalogueLookup(rec) ==
    \/ rec.op = "tableSchema"
    \/ rec.op = "tableStats" /\ rec.stage \in {"columnQuery", "sizeQuery"}
    \/ rec.op \in {"procedureInfo", "procedureDefinition", "procedureParameters"}

\* the server's answer to the statement in flight
QueryDoneCatalogue(r, c) ==
    /\ req[r].pc = "query"
    /\ IF Absent(req[r])
       THEN IF CatalogueLookup(req[r])
            THEN QueryDone(r, c, "empty", InvalidObjectFault)
            ELSE QueryDone(r, c, "error", InvalidObjectFault)
       ELSE \E res \in {"rows", "error"}, m \in FaultMessages :
                QueryDone(r, c, res, m)

NextNotFound ==
    \/ \E database \in {Chars("Sales"), Chars("reporting")}, table \in CatalogueTables :
           GetTableSchema(1, database, table)
    \/ \E database \in {Chars("Sales"), Chars("reporting")}, table \in CatalogueTables :
           GetTableStats(1, database, table)
    \/ \E database \in {Chars("Sales"), Chars("reporting")}, table \in CatalogueTables :
           PostTableData(1, database, table, 0, Chars("*"))
    \/ \E database \in {Chars("Sales"), Chars("reporting")},
          procedure \in CatalogueProcedures :
           GetStoredProcedure(1, database, procedure)
    \/ \E database \in {Chars("Sales"), Chars("reporting")},
          procedure \in CatalogueProcedures :
           GetStoredProcedureDefinition(1, database, procedure)
    \/ \E database \in {Chars("Sales"), Chars("reporting")},
          procedure \in CatalogueProcedures :
           GetStoredProcedureParameters(1, database, procedure)
    \/ \E r \in Requests, database \in OtherDatabases :
           Arrives(r) /\ GetTables(r, database)
    \/ \E r \in Requests, ok \in BOOLEAN : ConnectDone(r, ok)
    \/ \E r \in Requests, c \in Conns, ok \in BOOLEAN : UseDone(r, c, ok)
    \/ \E r \in Requests, c \in Conns : QueryDoneCatalogue(r, c)

SpecNotFound == Init /\ [][NextNotFound]_vars

(***************************************************************************)
(* Properties.                                                             *)
(***************************************************************************)
TableOps == {"tableSchema", "tableStats", "tableData"}

ProcedureOps ==
    {"procedureInfo", "procedureDefinition", "procedureParameters",
     "invokeProcedure"}

\* the character classes of the three kinds of identifier
DatabaseClass(s) ==
    /\ s # <<>>
    /\ IsLetter(s[1]) \/ s[1] = "_"
    /\ \A i \in 2..Len(s) : IsWordChar(s[i]) \/ s[i] = "-"

TableClass(s) ==
    /\ s # <<>>
    /\ IsLetter(s[1]) \/ s[1] = "_"
    /\ \A i \in 2..Len(s) : IsWordChar(s[i]) \/ IsSpace(s[i])

ProcedureClass(s) ==
    /\ s # <<>>
    /\ IsLetter(s[1]) \/ s[1] = "_"
    /\ \A i \in 2..Len(s) : IsWordChar(s[i])

\* the database named by a request is on the whitelist
Whitelisted(database) ==
    \E i \in 1..Len(allowedDatabases) :
        toUpperCase(allowedDatabases[i]) = toUpperCase(database)

\* the identifiers and the SQL text of a request are well-formed
WellFormed(rec) ==
    /\ DatabaseClass(rec.database)
    /\ rec.op \in TableOps => TableClass(rec.table)
    /\ rec.op \in ProcedureOps => ProcedureClass(rec.procedure)
    /\ rec.op = "adHocQuery" => validateQuery(rec.query).valid

\* the statements of a request that reached the database client: those it
\* executed, and the one it is executing
Handed(rec) ==
    {rec.sent[i].stmt : i \in 1..Len(rec.sent)}
    \cup (IF rec.pc = "use" THEN {useStatement(rec.database)} ELSE {})
    \cup (IF rec.pc = "query" THEN {rec.cur} ELSE {})

\* C1: a request that one of the gates rejects (database-name format,
\* table or procedure identifier format, statement classification, whitelist)
\* never calls getPool and never has a statement, USE included, given to the
\* database
C1_RejectedTouchesNothing ==
    \A r \in Requests :
        (req[r].pc # "idle" /\ (~WellFormed(req[r]) \/ ~Whitelisted(req[r].database)))
        => /\ ~req[r].pooled
           /\ Handed(req[r]) = {}
           /\ req[r].pc = "done"

\* a request rejected by the whitelist while another request has the pool open
\* and a statement running
C1_Witness ==
    /\ req[1].pc = "done" /\ req[1].status = 403
    /\ WellFormed(req[1]) /\ ~Whitelisted(req[1].database)
    /\ pool = "open"
    /\ \E r \in Requests : req[r].pc = "query"

C8_OwnDatabaseContext ==
    \A r \in Requests : \A i \in 1..Len(req[r].sent) :
        req[r].sent[i].ctx # <<>>
        => req[r].sent[i].ctx = toLowerCase(req[r].database)

\* C2: validateDatabase accepts a name exactly when the whitelist is not
\* empty and holds the lower-cased name, which is exactly when the name
\* equals, letter case ignored, one of the comma-separated, trimmed names of
\* ALLOWED_DATABASES; with nothing configured every name is rejected
C2_AcceptsExactlyWhitelisted ==
    probe.fn = "validateDatabase"
    => /\ probe.result.valid
          <=> /\ Len(allowedDatabases) > 0
              /\ toLowerCase(probe.arg) \in Range(allowedDatabases)
       /\ probe.result.valid
          <=> /\ env # <<>>
              /\ \E i \in 1..Len(split(env, ",")) :
                     toUpperCase(trim(split(env, ",")[i])) = toUpperCase(probe.arg)
       /\ env = <<>> => ~probe.result.valid

\* a name accepted although its letter case differs from the configured one
C2_Witness ==
    /\ probe.fn = "validateDatabase"
    /\ probe.result.valid
    /\ env = Chars("sales")
    /\ probe.arg = Chars("Sales")

\* the mutating and privilege verbs of the blocklist
BlockedVerbs ==
    {Chars("INSERT"), Chars("UPDATE"), Chars("DELETE"), Chars("DROP"),
     Chars("CREATE"), Chars("ALTER"), Chars("TRUNCATE"), Chars("MERGE"),
     Chars("GRANT"), Chars("REVOKE"), Chars("DENY"), Chars("EXEC"),
     Chars("EXECUTE")}

\* word occurs in text as a whole word, in any letter case
WholeWordAt(text, i, word) ==
    /\ WordBoundary(text, i)
    /\ OccursAtCI(text, i, word)
    /\ WordBoundary(text, i + Len(word))

HasWholeWord(text, word) == \E i \in 1..Len(text) : WholeWordAt(text, i, word)

\* an identifier of text begins with prefix, in any letter case
HasIdentifierWithPrefix(text, prefix) ==
    \E i \in 1..Len(text) : WordBoundary(text, i) /\ OccursAtCI(text, i, prefix)

MentionsBlocklisted(text) ==
    \/ \E verb \in BlockedVerbs : HasWholeWord(text, verb)
    \/ \E prefix \in {Chars("SP_"), Chars("XP_")} :
           HasIdentifierWithPrefix(text, prefix)

\* C3: an ad-hoc statement in which a blocklisted verb occurs as a whole
\* word, or an identifier begins with SP_ or XP_, is rejected and never given
\* to the database
C3_BlocklistedRejected ==
    \A r \in Requests :
        (req[r].op = "adHocQuery" /\ MentionsBlocklisted(req[r].query))
        => /\ ~validateQuery(req[r].query).valid
           /\ req[r].pc = "done"
           /\ req[r].status = 400
           /\ Handed(req[r]) = {}

\* the end of the word that starts at i: the first position after it
WordEnd(s, i) ==
    LET stop == {j \in i..(Len(s) + 1) : j = Len(s) + 1 \/ ~IsWordChar(s[j])}
    IN  CHOOSE j \in stop : \A k \in stop : j <= k

\* the databases of the three-part names database.schema.object of a text
QualifiedDatabases(text) ==
    {SubSeq(text, i, WordEnd(text, i) - 1) :
        i \in {j \in 1..Len(text) :
                 /\ WordBoundary(text, j) /\ IsWordAt(text, j)
                 /\ LET e1 == WordEnd(text, j)
                    IN  /\ e1 <= Len(text) /\ text[e1] = "."
                        /\ IsWordAt(text, e1 + 1)
                        /\ LET e2 == WordEnd(text, e1 + 1)
                           IN  /\ e2 <= Len(text) /\ text[e2] = "."
                               /\ IsWordAt(text, e2 + 1)}}

\* C4: an ad-hoc statement given to the database names objects of whitelisted
\* databases only
C4_OnlyWhitelistedObjects ==
    \A r \in Requests : \A stmt \in Handed(req[r]) : \A i \in 1..Len(stmt) :
        stmt[i].kind = "query"
        => \A database \in QualifiedDatabases(stmt[i].val) : Whitelisted(database)

\* C5: the statement of the table-data route holds no blocklisted verb as a
\* whole word and reads the validated table only: its one FROM is the
\* template's
C5_TableDataReadsOneTable ==
    \A r \in Requests : \A stmt \in Handed(req[r]) :
        (req[r].op = "tableData" /\ \E i \in 1..Len(stmt) : stmt[i].kind = "columns")
        => /\ \A verb \in BlockedVerbs : ~HasWholeWord(Text(stmt), verb)
           /\ Cardinality({i \in 1..Len(Text(stmt)) :
                              WholeWordAt(Text(stmt), i, Chars("FROM"))}) = 1

\* the statement has a TOP clause of its own
HasOwnTop(query) == HasWholeWord(query, Chars("TOP"))

\* the statement with ' TOP 1000' put right after its first SELECT
CappedText(query) ==
    LET at == {i \in 1..Len(query) : OccursAtCI(query, i, kwSELECT)}
        i  == CHOOSE k \in at : \A j \in at : k <= j
    IN  SubSeq(query, 1, i + Len(kwSELECT) - 1) \o Chars(" TOP 1000")
        \o SubSeq(query, i + Len(kwSELECT), Len(query))

\* C9: an accepted ad-hoc statement without a TOP clause of its own is
\* executed with TOP 1000 after its first SELECT and reported limited; one
\* with a TOP clause of its own is executed as written and reported not limited
C9_CappedUnlessOwnTop ==
    \A r \in Requests :
        (req[r].op = "adHocQuery" /\ req[r].pc = "done" /\ req[r].status = 200)
        => LET executed == Text(req[r].sent[Len(req[r].sent)].stmt)
           IN  IF HasOwnTop(req[r].query)
               THEN executed = req[r].query /\ ~req[r].limited
               ELSE /\ toUpperCase(executed) = toUpperCase(CappedText(req[r].query))
                    /\ req[r].limited

\* a semicolon followed by further text
Stacked(query) ==
    \E i \in 1..Len(query) :
        query[i] = ";" /\ SkipSpaces(query, i + 1) <= Len(query)

\* C10: an ad-hoc statement with a semicolon followed by a further statement
\* is rejected with the stacked-queries reason and never given to the database
C10_StackedRejected ==
    \A r \in Requests :
        (req[r].op = "adHocQuery" /\ Stacked(req[r].query))
        => /\ req[r].pc = "done"
           /\ req[r].status = 400
           /\ req[r].error = Chars("Stacked queries are not allowed")
           /\ Handed(req[r]) = {}

\* the statements of an operation, in the order its handler issues them
Plan(rec) ==
    CASE rec.op = "listTables" -> <<tablesQuery>>
      [] rec.op = "tableSchema" -> <<schemaQuery(rec.table)>>
      [] rec.op = "tableStats" ->
             <<countQuery(rec.table), columnQuery(rec.table), sizeQuery(rec.table)>>
      [] rec.op = "adHocQuery" -> <<(<<Arg("query", finalQuery(rec.query))>>)>>
      [] rec.op = "tableData" ->
             <<dataQuery(rec.table, rec.limit, rec.columns)>>
      [] rec.op = "listProcedures" -> <<proceduresQuery>>
      [] rec.op = "procedureInfo" ->
             <<infoQuery(rec.procedure), paramsQuery(rec.procedure)>>
      [] rec.op = "procedureDefinition" -> <<definitionQuery(rec.procedure)>>
      [] rec.op = "procedureParameters" ->
             <<checkQuery(rec.procedure), paramsQuery(rec.procedure)>>
      [] OTHER -> <<>>

\* the statements of a request the database was given, in order, each with
\* its outcome, USE statements left out; the statement in flight comes last
\* (USE runs before each one, so sent holds them at the even positions)
Issued(rec) ==
    [i \in 1..(Len(rec.sent) \div 2) |-> rec.sent[2 * i]]
    \o (IF rec.pc = "query" THEN <<[stmt |-> rec.cur, ctx |-> <<>>, ok |-> TRUE]>>
        ELSE <<>>)

\* C11 as stated: a request hands one statement to the database, once, and
\* none has one statement executed and a later one failed
C11_OneStatementOnce ==
    \A r \in Requests :
        /\ Len(Issued(req[r])) <= 1
        /\ \A i \in 1..Len(req[r].sent) :
               ~req[r].sent[i].ok => \A j \in 1..(i - 1) : j % 2 = 1

\* C11 amended: a request hands the statements of its operation in the
\* handler's order, each at most once and each after a USE of its own: one
\* statement for listTables, tableSchema, adHocQuery, tableData,
\* listProcedures and procedureDefinition, up to two for procedureInfo and
\* procedureParameters, up to three for tableStats. Nothing is retried: a
\* statement that failed is the last one of its request, which is then
\* finished, and a request answered 200 by a one-statement operation had
\* exactly one statement executed
C11_PlanInOrderNoRetry ==
    \A r \in Requests :
        LET rec    == req[r]
            issued == Issued(rec)
            plan   == Plan(rec)
        IN  /\ Len(issued) <= Len(plan)
            /\ \A i \in 1..Len(issued) : issued[i].stmt = plan[i]
            /\ \A i \in 1..Len(rec.sent) :
                   /\ i % 2 = 1 => rec.sent[i].stmt = useStatement(rec.database)
                   /\ ~rec.sent[i].ok => i = Len(rec.sent) /\ rec.pc = "done"
            /\ (rec.pc = "done" /\ rec.status = 200 /\ Len(plan) = 1)
               => Len(issued) = 1 /\ issued[1].ok

\* the stats handler executed its count statement and its column statement
\* failed: the request is answered 500 after one statement took effect
C11_Witness ==
    /\ req[1].op = "tableStats" /\ req[1].pc = "done" /\ req[1].status = 500
    /\ Len(req[1].sent) = 4
    /\ req[1].sent[2].ok /\ ~req[1].sent[4].ok
    /\ req[1].sent[4].stmt = columnQuery(req[1].table)

\* the request failed in validateDatabase: its database is not on the
\* whitelist, or the whitelist is empty
AuthorizationFailure(rec) ==
    /\ rec.pc = "done" /\ rec.status # 200
    /\ rec.gates # <<>> /\ rec.gates[Len(rec.gates)] = "validateDatabase"
    /\ ~validateDatabase(rec.database).valid

\* the request failed in the database client: sql.connect, the USE or the
\* statement was rejected
UpstreamFailure(rec) ==
    /\ rec.pc = "done" /\ rec.status # 200
    /\ \/ rec.sent # <<>> /\ ~rec.sent[Len(rec.sent)].ok
       \/ rec.sent = <<>> /\ rec.pooled /\ rec.error = ConnectFault

\* C12: a request that failed authorization is answered 4xx, and one that
\* failed in the database client is answered 500 with the client's message,
\* whatever that message says
C12_OutcomeByErrorKind ==
    \A r \in Requests :
        /\ AuthorizationFailure(req[r])
           => req[r].status >= 400 /\ req[r].status <= 499
        /\ UpstreamFailure(req[r])
           => /\ req[r].status = 500
              /\ req[r].error \in FaultMessages \cup {UseFault, ConnectFault}

IdentifierOps ==
    {"tableSchema", "tableStats", "tableData",
     "procedureInfo", "procedureDefinition", "procedureParameters"}

\* C13: a request of an operation that takes a table or procedure name,
\* well-formed and for a whitelisted database, whose object does not exist
\* and whose statement reached the database, is answered 404
C13_AbsentObjectNotFound ==
    \A r \in Requests :
        (/\ req[r].pc = "done"
         /\ req[r].op \in IdentifierOps
         /\ WellFormed(req[r]) /\ Whitelisted(req[r].database)
         /\ Absent(req[r])
         /\ Len(req[r].sent) >= 2 /\ req[r].sent[1].ok)
        => req[r].status = 404

\* C14: a well-formed invokeProcedure request for a whitelisted database
\* passes validateDatabase and reaches the database client, failing only if
\* the client fails; one for a database outside the whitelist is answered
\* with the authorization error
C14_InvokeProcedureRuns ==
    \A r \in Requests :
        (req[r].op = "invokeProcedure" /\ req[r].pc = "done" /\ WellFormed(req[r]))
        => IF Whitelisted(req[r].database)
           THEN /\ \E i \in 1..Len(req[r].gates) : req[r].gates[i] = "validateDatabase"
                /\ req[r].pooled
                /\ req[r].status = 200 \/ UpstreamFailure(req[r])
           ELSE req[r].error = validateDatabase(req[r].database).error

\* C15: sql.connect is called at most once while the pool has not been
\* closed, and no request issues a statement on a pool object that closePool
\* has closed
C15_OnePoolNoUseAfterClose ==
    /\ connectCalls <= 1
    /\ \A r \in Requests : req[r].poolUse # "sentOnClosed"

====
